---- MODULE Spec2Model ----
(***************************************************************************)
(* Scan-conversion library of the graphics lab (src/src/algo.rs), its      *)
(* trace sinks (src/src/logger.rs) and the dispatch that runs one          *)
(* algorithm per request (src/src/app.rs, run_algorithm).                  *)
(*                                                                         *)
(* Coordinates are IEEE-754 binary32 values.  A finite value is a record   *)
(* [nan |-> FALSE, m, e] standing for m * 2^e, with m = 0 (and e = 0) or   *)
(* 2^23 <= |m| < 2^24; every arithmetic operation rounds its exact result  *)
(* to nearest, ties to even, as the hardware does.  The sign of zero,      *)
(* infinities and subnormals are not represented: no algorithm below       *)
(* divides a nonzero value by zero, and the inputs are bounded.            *)
(***************************************************************************)
EXTENDS Integers, Sequences, FiniteSets, TLC

\* ------------------------------------------------------------------ f32

\* Width of the binary32 significand (implicit bit included).
MantBits == 24

Abs(i) == IF i < 0 THEN -i ELSE i

Sgn(i) == IF i < 0 THEN -1 ELSE 1

NaN == [nan |-> TRUE, m |-> 0, e |-> 0]

Mk(m, e) == [nan |-> FALSE, m |-> m, e |-> e]

Zero == Mk(0, 0)

\* Number of significant bits of n >= 0.
RECURSIVE BitLen(_)
BitLen(n) ==
  IF n >= 16 THEN 4 + BitLen(n \div 16)
  ELSE IF n >= 4 THEN (IF n >= 8 THEN 4 ELSE 3)
  ELSE IF n >= 2 THEN 2 ELSE n

\* The binary32 value nearest to s * M * 2^e (0 <= M < 2^31), ties to even;
\* a rounding that carries into a 25th bit is normalised once more.
RECURSIVE RoundPack(_, _, _)
RoundPack(s, M, e) ==
  IF M = 0 THEN Zero
  ELSE LET n == BitLen(M) IN
       IF n <= MantBits
       THEN Mk(s * M * 2^(MantBits - n), e - (MantBits - n))
       ELSE LET k == n - MantBits
                q == M \div 2^k
                r == M % 2^k
                h == 2^(k - 1)
            IN RoundPack(s, IF r > h \/ (r = h /\ q % 2 = 1) THEN q + 1 ELSE q,
                         e + k)

\* M / 2^d, with every bit shifted out or-ed into the lowest bit kept.
ShiftRightJam(M, d) ==
  IF d >= 31 THEN (IF M # 0 THEN 1 ELSE 0)
  ELSE LET q == M \div 2^d
           r == M % 2^d
       IN IF r # 0 /\ q % 2 = 0 THEN q + 1 ELSE q

FNeg(a) == IF a.nan THEN NaN ELSE Mk(-a.m, a.e)

FAbs(a) == IF a.nan THEN NaN ELSE Mk(Abs(a.m), a.e)

FAdd(a, b) ==
  IF a.nan \/ b.nan THEN NaN
  ELSE IF a.m = 0 THEN b
  ELSE IF b.m = 0 THEN a
  ELSE LET hi == IF a.e >= b.e THEN a ELSE b
           lo == IF a.e >= b.e THEN b ELSE a
           A  == Abs(hi.m) * 64
           B  == ShiftRightJam(Abs(lo.m) * 64, hi.e - lo.e)
       IN IF Sgn(hi.m) = Sgn(lo.m)
          THEN RoundPack(Sgn(hi.m), A + B, hi.e - 6)
          ELSE IF A >= B
               THEN RoundPack(Sgn(hi.m), A - B, hi.e - 6)
               ELSE RoundPack(Sgn(lo.m), B - A, hi.e - 6)

FSub(a, b) == FAdd(a, FNeg(b))

FMul(a, b) ==
  IF a.nan \/ b.nan THEN NaN
  ELSE IF a.m = 0 \/ b.m = 0 THEN Zero
  ELSE LET a1  == Abs(a.m) \div 4096
           a0  == Abs(a.m) % 4096
           b1  == Abs(b.m) \div 4096
           b0  == Abs(b.m) % 4096
           mid == a1 * b0 + a0 * b1
           low == (mid % 4096) * 4096 + a0 * b0
           lo  == low % 2^24
           hi  == a1 * b1 + (mid \div 4096) + (low \div 2^24)
           M   == hi * 64 + (lo \div 2^18)
           Mj  == IF lo % 2^18 # 0 /\ M % 2 = 0 THEN M + 1 ELSE M
       IN RoundPack(Sgn(a.m) * Sgn(b.m), Mj, a.e + b.e + 18)

\* 0.0 / 0.0 is NaN; a nonzero dividend over zero is never evaluated.
FDiv(a, b) ==
  IF a.nan \/ b.nan THEN NaN
  ELSE IF b.m = 0 THEN NaN
  ELSE IF a.m = 0 THEN Zero
  ELSE LET B  == Abs(b.m)
           q0 == Abs(a.m) \div B
           r0 == Abs(a.m) % B
           d1 == (r0 * 64) \div B
           r1 == (r0 * 64) % B
           d2 == (r1 * 64) \div B
           r2 == (r1 * 64) % B
           d3 == (r2 * 64) \div B
           r3 == (r2 * 64) % B
           d4 == (r3 * 64) \div B
           r4 == (r3 * 64) % B
           d5 == (r4 * 8) \div B
           r5 == (r4 * 8) % B
           Q  == q0 * 2^27 + d1 * 2^21 + d2 * 2^15 + d3 * 2^9 + d4 * 8 + d5
           Qj == IF r5 # 0 /\ Q % 2 = 0 THEN Q + 1 ELSE Q
       IN RoundPack(Sgn(a.m) * Sgn(b.m), Qj, a.e - b.e - 27)

\* `i as f32` for an i32 of fewer than 32 significant bits.
FromInt(i) == RoundPack(Sgn(i), Abs(i), 0)

\* k / 2 as a binary32 value (exact).
FHalf(k) == RoundPack(Sgn(k), Abs(k), -1)

FLt(a, b) == ~a.nan /\ ~b.nan /\ FSub(a, b).m < 0

FGt(a, b) == FLt(b, a)

FEq(a, b) == ~a.nan /\ ~b.nan /\ a = b

\* `a.round() as i32`: nearest integer, halves away from zero; NaN casts to 0.
RoundI(a) ==
  IF a.nan THEN 0
  ELSE IF a.e >= 0 THEN a.m * 2^a.e
  ELSE IF -a.e > MantBits THEN 0
  ELSE LET q == Abs(a.m) \div 2^(-a.e)
           r == Abs(a.m) % 2^(-a.e)
       IN Sgn(a.m) * (IF 2 * r >= 2^(-a.e) THEN q + 1 ELSE q)

\* `a.floor() as i32`: largest integer not above a; NaN casts to 0.
FloorI(a) ==
  IF a.nan THEN 0
  ELSE IF a.e >= 0 THEN a.m * 2^a.e
  ELSE IF -a.e > MantBits THEN (IF a.m < 0 THEN -1 ELSE 0)
  ELSE LET q == Abs(a.m) \div 2^(-a.e)
           r == Abs(a.m) % 2^(-a.e)
       IN IF a.m >= 0 THEN q ELSE IF r = 0 THEN -q ELSE -(q + 1)

\* `a.floor()` as a binary32 value.
FFloor(a) == IF a.nan THEN NaN ELSE FromInt(FloorI(a))

\* ------------------------------------------------------------------ logger.rs

\* The two fixed texts of `results` (the source's are in Russian).
LoggingDisabled == "logging was disabled"

NoLogsProduced == "the algorithm produced no logs"

\* A logger: its kind, the String buffer of a StringLogger as the sequence of
\* its characters, and (history, not in the source) the messages `log` was
\* called with.
NoOpLogger == [kind |-> "NoOp", buffer |-> <<>>, received |-> <<>>]

\* StringLogger::new
StringLogger_new == [kind |-> "String", buffer |-> <<>>, received |-> <<>>]

can_write(l) == l.kind = "String"

\* log pushing the message without the newline.
log_unterminated(l, message) ==
  [l EXCEPT !.received = Append(@, message),
            !.buffer = IF l.kind = "String" THEN @ \o message ELSE @]

\* A message is a sequence (of characters, or of the arguments of its
\* format!); a StringLogger pushes it and then '\n', a NoOpLogger does nothing.
log(l, message) ==
  [l EXCEPT !.received = Append(@, message),
            !.buffer = IF l.kind = "String" THEN @ \o message \o <<"\n">> ELSE @]

\* The text returned: a fixed text, or the buffer.
results(l) ==
  IF l.kind = "NoOp" THEN [text |-> LoggingDisabled, lines |-> <<>>]
  ELSE IF l.buffer = <<>> THEN [text |-> NoLogsProduced, lines |-> <<>>]
  ELSE [text |-> "", lines |-> l.buffer]

\* trace calling log without asking can_write.
trace_unguarded(l, message) == log(l, message)

\* `if logger.can_write() { logger.log(message) }`
trace(l, message) == IF can_write(l) THEN log(l, message) ELSE l

\* ------------------------------------------------------------------ algo.rs

Pos2(x, y) == [x |-> x, y |-> y]

\* step_by_step_enter with the last dominant coordinate excluded (`..` for `..=`).
step_by_step_enter_exclusive(p1, p2, logger) ==
  LET dx == FSub(p2.x, p1.x)
      dy == FSub(p2.y, p1.y)
  IN IF FGt(FAbs(dx), FAbs(dy))
     THEN LET k == FDiv(dy, dx)
              b == FSub(p1.y, FMul(k, p1.x))
              lt == FLt(p1.x, p2.x)
          IN [xdom |-> TRUE, k |-> k, b |-> b,
              c |-> RoundI(IF lt THEN p1.x ELSE p2.x),
              end |-> RoundI(IF lt THEN p2.x ELSE p1.x) - 1,
              pixels |-> <<>>, logger |-> logger]
     ELSE LET k == FDiv(dx, dy)
              b == FSub(p1.x, FMul(k, p1.y))
              lt == FLt(p1.y, p2.y)
          IN [xdom |-> FALSE, k |-> k, b |-> b,
              c |-> RoundI(IF lt THEN p1.y ELSE p2.y),
              end |-> RoundI(IF lt THEN p2.y ELSE p1.y) - 1,
              pixels |-> <<>>, logger |-> logger]

\* step_by_step: the code before the loop of the branch taken.
step_by_step_enter(p1, p2, logger) ==
  LET dx == FSub(p2.x, p1.x)
      dy == FSub(p2.y, p1.y)
  IN IF FGt(FAbs(dx), FAbs(dy))
     THEN LET k == FDiv(dy, dx)
              b == FSub(p1.y, FMul(k, p1.x))
              lt == FLt(p1.x, p2.x)
          IN [xdom |-> TRUE, k |-> k, b |-> b,
              c |-> RoundI(IF lt THEN p1.x ELSE p2.x),
              end |-> RoundI(IF lt THEN p2.x ELSE p1.x),
              pixels |-> <<>>, logger |-> logger]
     ELSE LET k == FDiv(dx, dy)
              b == FSub(p1.x, FMul(k, p1.y))
              lt == FLt(p1.y, p2.y)
          IN [xdom |-> FALSE, k |-> k, b |-> b,
              c |-> RoundI(IF lt THEN p1.y ELSE p2.y),
              end |-> RoundI(IF lt THEN p2.y ELSE p1.y),
              pixels |-> <<>>, logger |-> logger]

\* step_by_step_iter with the dependent coordinate truncated, not rounded.
step_by_step_iter_floor(f) ==
  LET v == FAdd(FMul(f.k, FromInt(f.c)), f.b)
      d == FloorI(v)
  IN [f EXCEPT !.logger = trace(@, <<"sbs", f.c, f.k, f.b, v, d>>),
               !.pixels = Append(@, IF f.xdom THEN <<f.c, d>> ELSE <<d, f.c>>),
               !.c = f.c + 1]

\* step_by_step: one iteration of the for loop, at dominant coordinate f.c.
step_by_step_iter(f) ==
  LET v == FAdd(FMul(f.k, FromInt(f.c)), f.b)
      d == RoundI(v)
  IN [f EXCEPT !.logger = trace(@, <<"sbs", f.c, f.k, f.b, v, d>>),
               !.pixels = Append(@, IF f.xdom THEN <<f.c, d>> ELSE <<d, f.c>>),
               !.c = f.c + 1]

\* dda_enter with the last step excluded (`..` for `..=`).
dda_enter_exclusive(p1, p2, logger) ==
  LET dx == FSub(p2.x, p1.x)
      dy == FSub(p2.y, p1.y)
      steps == IF FGt(FAbs(dx), FAbs(dy)) THEN FAbs(dx) ELSE FAbs(dy)
  IN [x_inc |-> FDiv(dx, steps), y_inc |-> FDiv(dy, steps),
      x |-> p1.x, y |-> p1.y, c |-> 0, end |-> RoundI(steps) - 1,
      pixels |-> <<>>, logger |-> logger]

\* dda: the code before the loop.
dda_enter(p1, p2, logger) ==
  LET dx == FSub(p2.x, p1.x)
      dy == FSub(p2.y, p1.y)
      steps == IF FGt(FAbs(dx), FAbs(dy)) THEN FAbs(dx) ELSE FAbs(dy)
  IN [x_inc |-> FDiv(dx, steps), y_inc |-> FDiv(dy, steps),
      x |-> p1.x, y |-> p1.y, c |-> 0, end |-> RoundI(steps),
      pixels |-> <<>>, logger |-> logger]

\* dda: one iteration of the for loop.
dda_iter(f) ==
  LET ix == RoundI(f.x)
      iy == RoundI(f.y)
  IN [f EXCEPT !.logger = trace(@, <<"dda", f.c, f.x, f.y, ix, iy>>),
               !.pixels = Append(@, <<ix, iy>>),
               !.x = FAdd(f.x, f.x_inc),
               !.y = FAdd(f.y, f.y_inc),
               !.c = f.c + 1]

\* bresenham_line_enter stepping x to the right whatever the direction.
bresenham_line_enter_right(p1, p2, logger) ==
  LET x1 == RoundI(p1.x)
      y1 == RoundI(p1.y)
      x2 == RoundI(p2.x)
      y2 == RoundI(p2.y)
      dx == Abs(x2 - x1)
      dy == -Abs(y2 - y1)
  IN [x1 |-> x1, y1 |-> y1, x2 |-> x2, y2 |-> y2, dx |-> dx, dy |-> dy,
      sx |-> 1, sy |-> IF y1 < y2 THEN 1 ELSE -1,
      err |-> dx + dy, brk |-> FALSE, pixels |-> <<>>, logger |-> logger]

\* bresenham_line: the code before the loop.
bresenham_line_enter(p1, p2, logger) ==
  LET x1 == RoundI(p1.x)
      y1 == RoundI(p1.y)
      x2 == RoundI(p2.x)
      y2 == RoundI(p2.y)
      dx == Abs(x2 - x1)
      dy == -Abs(y2 - y1)
  IN [x1 |-> x1, y1 |-> y1, x2 |-> x2, y2 |-> y2, dx |-> dx, dy |-> dy,
      sx |-> IF x1 < x2 THEN 1 ELSE -1, sy |-> IF y1 < y2 THEN 1 ELSE -1,
      err |-> dx + dy, brk |-> FALSE, pixels |-> <<>>, logger |-> logger]

\* bresenham_line_iter with the second test on the error already updated.
bresenham_line_iter_stale(f) ==
  LET g == [f EXCEPT !.pixels = Append(@, <<f.x1, f.y1>>),
                     !.logger = trace(@, <<"bl", f.x1, f.y1, f.err>>)]
      stepx == 2 * f.err >= f.dy
      err1 == IF stepx THEN f.err + f.dy ELSE f.err
      stepy == 2 * err1 <= f.dx
  IN IF f.x1 = f.x2 /\ f.y1 = f.y2
     THEN [g EXCEPT !.brk = TRUE]
     ELSE [g EXCEPT !.err = IF stepy THEN err1 + f.dx ELSE err1,
                    !.x1 = IF stepx THEN f.x1 + f.sx ELSE f.x1,
                    !.y1 = IF stepy THEN f.y1 + f.sy ELSE f.y1]

\* bresenham_line: one iteration of `loop`.
bresenham_line_iter(f) ==
  LET g == [f EXCEPT !.pixels = Append(@, <<f.x1, f.y1>>),
                     !.logger = trace(@, <<"bl", f.x1, f.y1, f.err>>)]
      e2 == 2 * f.err
      stepx == e2 >= f.dy
      err1 == IF stepx THEN f.err + f.dy ELSE f.err
      stepy == e2 <= f.dx
  IN IF f.x1 = f.x2 /\ f.y1 = f.y2
     THEN [g EXCEPT !.brk = TRUE]
     ELSE [g EXCEPT !.err = IF stepy THEN err1 + f.dx ELSE err1,
                    !.x1 = IF stepx THEN f.x1 + f.sx ELSE f.x1,
                    !.y1 = IF stepy THEN f.y1 + f.sy ELSE f.y1]

\* bresenham_circle: the code before the loop.
bresenham_circle_enter(center, radius, logger) ==
  LET r == RoundI(radius)
  IN [cx |-> RoundI(center.x), cy |-> RoundI(center.y),
      x |-> 0, y |-> r, d |-> 3 - 2 * r,
      pixels |-> <<>>, logger |-> logger]

\* Octants with the last reflection repeating the sixth.
Octants_seven(cx, cy, x, y) ==
  << <<cx + x, cy + y>>, <<cx - x, cy + y>>, <<cx + x, cy - y>>,
     <<cx - x, cy - y>>, <<cx + y, cy + x>>, <<cx - y, cy + x>>,
     <<cx + y, cy - x>>, <<cx - y, cy + x>> >>

\* Octants without the reflections across the diagonal.
Octants_four(cx, cy, x, y) ==
  << <<cx + x, cy + y>>, <<cx - x, cy + y>>, <<cx + x, cy - y>>,
     <<cx - x, cy - y>> >>

\* The eight pixels pushed for the offset (x, y), in the order of the code.
Octants(cx, cy, x, y) ==
  << <<cx + x, cy + y>>, <<cx - x, cy + y>>, <<cx + x, cy - y>>,
     <<cx - x, cy - y>>, <<cx + y, cy + x>>, <<cx - y, cy + x>>,
     <<cx + y, cy - x>>, <<cx - y, cy - x>> >>

\* bresenham_circle: one iteration of `while y >= x`.
bresenham_circle_iter(f) ==
  LET x1 == f.x + 1
  IN [f EXCEPT !.logger = trace(@, <<"bc", f.x, f.y, f.d>>),
               !.pixels = @ \o Octants(f.cx, f.cy, f.x, f.y),
               !.x = x1,
               !.y = IF f.d > 0 THEN f.y - 1 ELSE f.y,
               !.d = IF f.d > 0 THEN f.d + 4 * (x1 - (f.y - 1)) + 10
                                ELSE f.d + 4 * x1 + 6]

\* wu_line: the code before the loop.
wu_line_enter(p1, p2, logger) ==
  LET steep == FGt(FAbs(FSub(p2.y, p1.y)), FAbs(FSub(p2.x, p1.x)))
      ax0 == IF steep THEN p1.y ELSE p1.x
      ay0 == IF steep THEN p1.x ELSE p1.y
      ax1 == IF steep THEN p2.y ELSE p2.x
      ay1 == IF steep THEN p2.x ELSE p2.y
      sw == FGt(ax0, ax1)
      x0 == IF sw THEN ax1 ELSE ax0
      y0 == IF sw THEN ay1 ELSE ay0
      x1 == IF sw THEN ax0 ELSE ax1
      y1 == IF sw THEN ay0 ELSE ay1
      dx == FSub(x1, x0)
      dy == FSub(y1, y0)
  IN [steep |-> steep,
      gradient |-> IF FEq(dx, Zero) THEN FromInt(1) ELSE FDiv(dy, dx),
      y |-> y0, c |-> RoundI(x0), end |-> RoundI(x1),
      pixels |-> <<>>, logger |-> logger]

\* wu_line: one iteration of the for loop.
wu_line_iter(f) ==
  LET y_floor == FFloor(f.y)
      fractional_part == FSub(f.y, y_floor)
      intensity1 == FSub(FromInt(1), fractional_part)
      intensity2 == fractional_part
      yi == FloorI(f.y)
      a == IF f.steep THEN <<yi, f.c, intensity1>> ELSE <<f.c, yi, intensity1>>
      b == IF f.steep THEN <<yi + 1, f.c, intensity2>>
                      ELSE <<f.c, yi + 1, intensity2>>
  IN [f EXCEPT !.pixels = @ \o <<a, b>>,
               !.logger = trace(@, <<"wu", f.c, f.y, a, b>>),
               !.y = FAdd(f.y, f.gradient),
               !.c = f.c + 1]

\* step_by_step_aa: the code before the loop (as step_by_step's).
step_by_step_aa_enter(p1, p2, logger) == step_by_step_enter(p1, p2, logger)

\* step_by_step_aa: one iteration of the for loop of the branch taken.
step_by_step_aa_iter(f) ==
  LET ideal == FAdd(FMul(f.k, FromInt(f.c)), f.b)
      fl == FFloor(ideal)
      fractional == FSub(ideal, fl)
      n1 == FloorI(ideal)
      n2 == n1 + 1
      intensity1 == FSub(FromInt(1), fractional)
      intensity2 == fractional
      a == IF f.xdom THEN <<f.c, n1, intensity1>> ELSE <<n1, f.c, intensity1>>
      b == IF f.xdom THEN <<f.c, n2, intensity2>> ELSE <<n2, f.c, intensity2>>
  IN [f EXCEPT !.pixels = @ \o <<a, b>>,
               !.logger = trace(@, <<"sbs_aa", f.c, ideal, n1, intensity1,
                                     n2, intensity2>>),
               !.c = f.c + 1]

\* dda_aa: the code before the loop.
dda_aa_enter(p1, p2, logger) ==
  LET dx == FSub(p2.x, p1.x)
      dy == FSub(p2.y, p1.y)
      steps == IF FGt(FAbs(dx), FAbs(dy)) THEN FAbs(dx) ELSE FAbs(dy)
  IN [x_inc |-> FDiv(dx, steps), y_inc |-> FDiv(dy, steps),
      x_ideal |-> p1.x, y_ideal |-> p1.y,
      is_steep |-> FGt(FAbs(dy), FAbs(dx)),
      c |-> 0, end |-> RoundI(steps),
      pixels |-> <<>>, logger |-> logger]

\* dda_aa: one iteration of the for loop.
dda_aa_iter(f) ==
  LET minor == IF f.is_steep THEN f.x_ideal ELSE f.y_ideal
      fractional == FSub(minor, FFloor(minor))
      n1 == FloorI(minor)
      n2 == n1 + 1
      i1 == FSub(FromInt(1), fractional)
      a == IF f.is_steep THEN <<n1, RoundI(f.y_ideal), i1>>
                         ELSE <<RoundI(f.x_ideal), n1, i1>>
      b == IF f.is_steep THEN <<n2, RoundI(f.y_ideal), fractional>>
                         ELSE <<RoundI(f.x_ideal), n2, fractional>>
  IN [f EXCEPT !.pixels = @ \o <<a, b>>,
               !.logger = trace(@, <<"dda_aa", f.x_ideal, f.y_ideal>>),
               !.x_ideal = FAdd(f.x_ideal, f.x_inc),
               !.y_ideal = FAdd(f.y_ideal, f.y_inc),
               !.c = f.c + 1]

\* bresenham_aa: the code before the loop of the branch taken.
bresenham_aa_enter(p1, p2, logger) ==
  LET x1 == RoundI(p1.x)
      y1 == RoundI(p1.y)
      x2 == RoundI(p2.x)
      y2 == RoundI(p2.y)
      dx == Abs(x2 - x1)
      dy == Abs(y2 - y1)
  IN [dx |-> dx, dy |-> dy,
      sx |-> IF x1 < x2 THEN 1 ELSE -1, sy |-> IF y1 < y2 THEN 1 ELSE -1,
      shallow |-> dx >= dy, d |-> 0, x |-> x1, y |-> y1,
      c |-> 0, end |-> IF dx >= dy THEN dx ELSE dy,
      pixels |-> <<>>, logger |-> logger]

\* bresenham_aa_iter resetting the accumulator only above the span (`>` for `>=`).
bresenham_aa_iter_above(f) ==
  LET span == IF f.shallow THEN f.dx ELSE f.dy
      minor == IF f.shallow THEN f.dy ELSE f.dx
      intensity == FDiv(FromInt(f.d), FromInt(span))
      a == <<f.x, f.y, FSub(FromInt(1), intensity)>>
      b == IF f.shallow THEN <<f.x, f.y + f.sy, intensity>>
                        ELSE <<f.x + f.sx, f.y, intensity>>
      d1 == f.d + minor
      over == d1 > span
  IN [f EXCEPT !.pixels = @ \o <<a, b>>,
               !.logger = trace(@, <<"bl_aa", f.x, f.y, f.d, span, intensity>>),
               !.d = IF over THEN d1 - span ELSE d1,
               !.x = IF f.shallow THEN f.x + f.sx
                     ELSE IF over THEN f.x + f.sx ELSE f.x,
               !.y = IF f.shallow THEN (IF over THEN f.y + f.sy ELSE f.y)
                     ELSE f.y + f.sy,
               !.c = f.c + 1]

\* bresenham_aa: one iteration of the for loop of the branch taken.
bresenham_aa_iter(f) ==
  LET span == IF f.shallow THEN f.dx ELSE f.dy
      minor == IF f.shallow THEN f.dy ELSE f.dx
      intensity == FDiv(FromInt(f.d), FromInt(span))
      a == <<f.x, f.y, FSub(FromInt(1), intensity)>>
      b == IF f.shallow THEN <<f.x, f.y + f.sy, intensity>>
                        ELSE <<f.x + f.sx, f.y, intensity>>
      d1 == f.d + minor
      over == d1 >= span
  IN [f EXCEPT !.pixels = @ \o <<a, b>>,
               !.logger = trace(@, <<"bl_aa", f.x, f.y, f.d, span, intensity>>),
               !.d = IF over THEN d1 - span ELSE d1,
               !.x = IF f.shallow THEN f.x + f.sx
                     ELSE IF over THEN f.x + f.sx ELSE f.x,
               !.y = IF f.shallow THEN (IF over THEN f.y + f.sy ELSE f.y)
                     ELSE f.y + f.sy,
               !.c = f.c + 1]

\* Number of parameter steps of the curve (samples i = 0..steps).
steps == 1000

\* lerp with the weights of the two ends exchanged.
lerp_exchanged(a, b, t) == FAdd(FMul(t, a), FMul(FSub(FromInt(1), t), b))

\* emath's lerp(a..=b, t) = (1 - t) * a + t * b, in binary32.
lerp(a, b, t) == FAdd(FMul(FSub(FromInt(1), t), a), FMul(t, b))

\* Pos2::lerp, coordinate by coordinate.
Pos2_lerp(p, q, t) == Pos2(lerp(p.x, q.x, t), lerp(p.y, q.y, t))

\* `windows(2).map(|p| p[0].lerp(p[1], t)).collect()`
RECURSIVE Windows2(_, _)
Windows2(pts, t) ==
  IF Len(pts) < 2 THEN <<>>
  ELSE <<Pos2_lerp(pts[1], pts[2], t)>> \o Windows2(Tail(pts), t)

\* The `while temp_points.len() > 1` loop.
RECURSIVE Reduce(_, _)
Reduce(pts, t) == IF Len(pts) <= 1 THEN pts ELSE Reduce(Windows2(pts, t), t)

\* The rounded point of sample i (None is never built: the list is not empty).
SamplePixel(points, i) ==
  LET t == FDiv(FromInt(i), FromInt(steps))
      p == Reduce(points, t)[1]
  IN <<RoundI(p.x), RoundI(p.y)>>

Contains(seq, v) == \E j \in 1..Len(seq) : seq[j] = v

\* castle_pitway_enter returning early only for an empty list.
castle_pitway_enter_empty(points, logger) ==
  [points |-> points, returned |-> Len(points) < 1, c |-> 0, end |-> steps,
   pixels |-> <<>>, logger |-> logger]

\* castle_pitway: the code before the loop, with the early return.
castle_pitway_enter(points, logger) ==
  [points |-> points, returned |-> Len(points) < 2, c |-> 0, end |-> steps,
   pixels |-> <<>>, logger |-> logger]

\* castle_pitway_iter pushing every rounded sample.
castle_pitway_iter_push(f) ==
  LET t == FDiv(FromInt(f.c), FromInt(steps))
      pixel == SamplePixel(f.points, f.c)
  IN [f EXCEPT !.logger = IF can_write(@) /\ f.c % 100 = 0
                          THEN log(@, <<"t", t>>) ELSE @,
               !.pixels = Append(@, pixel),
               !.c = f.c + 1]

\* castle_pitway: one iteration of the for loop.
castle_pitway_iter(f) ==
  LET t == FDiv(FromInt(f.c), FromInt(steps))
      pixel == SamplePixel(f.points, f.c)
  IN [f EXCEPT !.logger = IF can_write(@) /\ f.c % 100 = 0
                          THEN log(@, <<"t", t>>) ELSE @,
               !.pixels = IF Contains(@, pixel) THEN @ ELSE Append(@, pixel),
               !.c = f.c + 1]

\* ------------------------------------------------------------------ dispatch

LineAlgorithms ==
  {"StepByStep", "DDA", "BresenhamLine", "WuLine", "StepByStepAA", "DdaAA",
   "BresenhamAA"}

Algorithm == LineAlgorithms \cup {"BresenhamCircle", "CastlePitway"}

\* execute_and_get_result: the call, up to the loop of the algorithm.
Enter(alg, params, logger) ==
  CASE alg = "StepByStep" -> step_by_step_enter(params.p1, params.p2, logger)
    [] alg = "DDA" -> dda_enter(params.p1, params.p2, logger)
    [] alg = "BresenhamLine" -> bresenham_line_enter(params.p1, params.p2, logger)
    [] alg = "BresenhamCircle" ->
         bresenham_circle_enter(params.circle_center, params.circle_radius, logger)
    [] alg = "StepByStepAA" -> step_by_step_aa_enter(params.p1, params.p2, logger)
    [] alg = "DdaAA" -> dda_aa_enter(params.p1, params.p2, logger)
    [] alg = "BresenhamAA" -> bresenham_aa_enter(params.p1, params.p2, logger)
    [] alg = "CastlePitway" -> castle_pitway_enter(params.castle_points, logger)
    [] alg = "WuLine" -> wu_line_enter(params.p1, params.p2, logger)

\* The loop condition of the algorithm, in frame f.
Running(alg, f) ==
  CASE alg = "BresenhamLine" -> ~f.brk
    [] alg = "BresenhamCircle" -> f.y >= f.x
    [] alg = "CastlePitway" -> ~f.returned /\ f.c <= f.end
    [] OTHER -> f.c <= f.end

\* One iteration of the loop of the algorithm.
Iter(alg, f) ==
  CASE alg = "StepByStep" -> step_by_step_iter(f)
    [] alg = "DDA" -> dda_iter(f)
    [] alg = "BresenhamLine" -> bresenham_line_iter(f)
    [] alg = "BresenhamCircle" -> bresenham_circle_iter(f)
    [] alg = "StepByStepAA" -> step_by_step_aa_iter(f)
    [] alg = "DdaAA" -> dda_aa_iter(f)
    [] alg = "BresenhamAA" -> bresenham_aa_iter(f)
    [] alg = "CastlePitway" -> castle_pitway_iter(f)
    [] alg = "WuLine" -> wu_line_iter(f)

\* The frame in which the loop of the algorithm ends.
RECURSIVE RunLoop(_, _)
RunLoop(alg, f) == IF Running(alg, f) THEN RunLoop(alg, Iter(alg, f)) ELSE f

\* The functions of algo.rs as a whole: the sequence returned.
step_by_step(p1, p2, logger) ==
  RunLoop("StepByStep", step_by_step_enter(p1, p2, logger)).pixels

dda(p1, p2, logger) == RunLoop("DDA", dda_enter(p1, p2, logger)).pixels

bresenham_line(p1, p2, logger) ==
  RunLoop("BresenhamLine", bresenham_line_enter(p1, p2, logger)).pixels

\* ------------------------------------------------------------------ app.rs

VARIABLES selected_algorithm, params, log_enabled, pc, frame,
          last_run_algorithm, render_result, text_windows

vars == <<selected_algorithm, params, log_enabled, pc, frame,
          last_run_algorithm, render_result, text_windows>>

\* Largest |coordinate| of an integer-aligned line end point.
MaxCoord == 3

\* Largest |2 * coordinate| of a line end point on the half-pixel grid.
MaxHalf == 3

\* Largest |coordinate| of a circle centre, and largest 2 * radius.
MaxCenter == 1

MaxDiameter == 12

\* Longest list of control points.
MaxPoints == 4

\* Most log calls on one logger, and longest message, of the logger's clients.
MaxCalls == 3

MaxMsgLen == 2

\* The messages of at most n characters, over a letter and the newline.
RECURSIVE MessagesUpTo(_)
MessagesUpTo(n) ==
  IF n = 0 THEN {<<>>}
  ELSE LET shorter == MessagesUpTo(n - 1)
       IN shorter \cup {Append(m, ch) : m \in shorter, ch \in {"a", "\n"}}

\* Largest |2 * coordinate| of a line end point of the runs compared with and
\* without tracing.
MaxTrace == 2

\* Largest integer radius of the circles about the default centre.
MaxRadius == 11

IntPoints == {Pos2(FromInt(i), FromInt(j)) : i, j \in -MaxCoord..MaxCoord}

HalfPoints == {Pos2(FHalf(i), FHalf(j)) : i, j \in -MaxHalf..MaxHalf}

\* AppParameters::default
DefaultP1 == Pos2(FromInt(-50), FromInt(-10))

DefaultP2 == Pos2(FromInt(50), FromInt(20))

DefaultCenter == Pos2(Zero, Zero)

DefaultRadius == FromInt(60)

DefaultCastle ==
  << Pos2(FromInt(-80), FromInt(-50)), Pos2(FromInt(-30), FromInt(80)),
     Pos2(FromInt(30), FromInt(-80)), Pos2(FromInt(80), FromInt(50)) >>

\* Lists of n control points taken cyclically from the default ones, from s on.
Window(s, n) == [j \in 1..n |-> DefaultCastle[((s + j - 2) % 4) + 1]]

CastleInputs == {Window(s, n) : s \in 1..4, n \in 0..MaxPoints}

Params(p1, p2, c, r, pts) ==
  [p1 |-> p1, p2 |-> p2, circle_center |-> c, circle_radius |-> r,
   castle_points |-> pts]

\* The application before a run: an algorithm selected, parameters entered.
InitApp(alg, prm) ==
  /\ selected_algorithm = alg
  /\ params = prm
  /\ log_enabled \in BOOLEAN
  /\ pc = "idle"
  /\ frame = [pixels |-> <<>>, logger |-> NoOpLogger]
  /\ last_run_algorithm = "None"
  /\ render_result = <<>>
  /\ text_windows = <<>>

InitLine ==
  \E alg \in LineAlgorithms, a, b \in IntPoints :
     InitApp(alg, Params(a, b, DefaultCenter, DefaultRadius, DefaultCastle))

InitFrac ==
  \E alg \in LineAlgorithms, a, b \in HalfPoints :
     InitApp(alg, Params(a, b, DefaultCenter, DefaultRadius, DefaultCastle))

InitCircle ==
  \E c \in {Pos2(FHalf(i), FHalf(j)) : i, j \in -2 * MaxCenter..2 * MaxCenter},
     r \in {FHalf(d) : d \in -1..MaxDiameter} \cup {FDiv(FromInt(1), FromInt(4))} :
     InitApp("BresenhamCircle", Params(DefaultP1, DefaultP2, c, r, DefaultCastle))

InitCurve ==
  \E pts \in CastleInputs :
     InitApp("CastlePitway", Params(DefaultP1, DefaultP2, DefaultCenter, DefaultRadius, pts))

\* run_algorithm, up to the loop of the algorithm called.
RunAlgorithm ==
  /\ pc = "idle"
  /\ last_run_algorithm' = selected_algorithm
  /\ frame' = Enter(selected_algorithm, params,
                    IF log_enabled THEN StringLogger_new ELSE NoOpLogger)
  /\ pc' = "exec"
  /\ UNCHANGED <<selected_algorithm, params, log_enabled, render_result, text_windows>>

\* What an iteration of an algorithm's loop leaves alone.
rest == <<selected_algorithm, params, log_enabled, pc, last_run_algorithm,
          render_result, text_windows>>

StepByStepIter ==
  /\ pc = "exec"
  /\ selected_algorithm = "StepByStep"
  /\ Running("StepByStep", frame)
  /\ frame' = step_by_step_iter(frame)
  /\ UNCHANGED rest

DdaIter ==
  /\ pc = "exec"
  /\ selected_algorithm = "DDA"
  /\ Running("DDA", frame)
  /\ frame' = dda_iter(frame)
  /\ UNCHANGED rest

BresenhamLineIter ==
  /\ pc = "exec"
  /\ selected_algorithm = "BresenhamLine"
  /\ Running("BresenhamLine", frame)
  /\ frame' = bresenham_line_iter(frame)
  /\ UNCHANGED rest

BresenhamCircleIter ==
  /\ pc = "exec"
  /\ selected_algorithm = "BresenhamCircle"
  /\ Running("BresenhamCircle", frame)
  /\ frame' = bresenham_circle_iter(frame)
  /\ UNCHANGED rest

CastlePitwayIter ==
  /\ pc = "exec"
  /\ selected_algorithm = "CastlePitway"
  /\ Running("CastlePitway", frame)
  /\ frame' = castle_pitway_iter(frame)
  /\ UNCHANGED rest

WuLineIter ==
  /\ pc = "exec"
  /\ selected_algorithm = "WuLine"
  /\ Running("WuLine", frame)
  /\ frame' = wu_line_iter(frame)
  /\ UNCHANGED rest

StepByStepAAIter ==
  /\ pc = "exec"
  /\ selected_algorithm = "StepByStepAA"
  /\ Running("StepByStepAA", frame)
  /\ frame' = step_by_step_aa_iter(frame)
  /\ UNCHANGED rest

DdaAAIter ==
  /\ pc = "exec"
  /\ selected_algorithm = "DdaAA"
  /\ Running("DdaAA", frame)
  /\ frame' = dda_aa_iter(frame)
  /\ UNCHANGED rest

BresenhamAAIter ==
  /\ pc = "exec"
  /\ selected_algorithm = "BresenhamAA"
  /\ Running("BresenhamAA", frame)
  /\ frame' = bresenham_aa_iter(frame)
  /\ UNCHANGED rest

\* The algorithm returns; run_algorithm stores the result and, with logging
\* enabled, pushes a window with the text of the logger.
Return ==
  /\ pc = "exec"
  /\ ~Running(selected_algorithm, frame)
  /\ render_result' = frame.pixels
  /\ text_windows' =
       IF log_enabled
       THEN Append(text_windows, [title |-> selected_algorithm,
                                  content |-> results(frame.logger),
                                  is_open |-> TRUE])
       ELSE text_windows
  /\ pc' = "done"
  /\ UNCHANGED <<selected_algorithm, params, log_enabled, frame, last_run_algorithm>>

\* A client of the Logger trait: it takes the logger run_algorithm would,
NewLogger ==
  /\ pc = "idle"
  /\ frame' = [pixels |-> <<>>,
               logger |-> IF log_enabled THEN StringLogger_new ELSE NoOpLogger]
  /\ pc' = "sink"
  /\ UNCHANGED <<selected_algorithm, params, log_enabled, last_run_algorithm,
                 render_result, text_windows>>

\* calls log any number of times with any messages,
LogCall ==
  /\ pc = "sink"
  /\ Len(frame.logger.received) < MaxCalls
  /\ \E message \in MessagesUpTo(MaxMsgLen) :
        frame' = [frame EXCEPT !.logger = log(@, message)]
  /\ UNCHANGED rest

\* and consumes it with results, keeping the text in a window.
Results ==
  /\ pc = "sink"
  /\ text_windows' = Append(text_windows, [title |-> selected_algorithm,
                                           content |-> results(frame.logger),
                                           is_open |-> TRUE])
  /\ pc' = "drained"
  /\ UNCHANGED <<selected_algorithm, params, log_enabled, frame,
                 last_run_algorithm, render_result>>

NextLogger == NewLogger \/ LogCall \/ Results

NextLine ==
  \/ RunAlgorithm
  \/ StepByStepIter
  \/ DdaIter
  \/ BresenhamLineIter
  \/ WuLineIter
  \/ StepByStepAAIter
  \/ DdaAAIter
  \/ BresenhamAAIter
  \/ Return

NextCircle == RunAlgorithm \/ BresenhamCircleIter \/ Return

NextCurve == RunAlgorithm \/ CastlePitwayIter \/ Return

Next == NextLine \/ BresenhamCircleIter \/ CastlePitwayIter

Init == InitLine \/ InitFrac \/ InitCircle \/ InitCurve

\* Every algorithm, on every input of the four families.
Spec == Init /\ [][Next]_vars

\* The seven line algorithms on integer-aligned end points.
SpecLine == InitLine /\ [][NextLine]_vars

\* The seven line algorithms on end points of the half-pixel grid.
SpecFrac == InitFrac /\ [][NextLine]_vars

SpecCircle == InitCircle /\ [][NextCircle]_vars

SpecCurve == InitCurve /\ [][NextCurve]_vars

\* step_by_step on the end points of both grids and on the default ones.
InitStepByStep ==
  \E e \in (IntPoints \X IntPoints) \cup (HalfPoints \X HalfPoints)
            \cup {<<DefaultP1, DefaultP2>>} :
     InitApp("StepByStep",
             Params(e[1], e[2], DefaultCenter, DefaultRadius, DefaultCastle))

NextStepByStep == RunAlgorithm \/ StepByStepIter \/ Return

SpecStepByStep == InitStepByStep /\ [][NextStepByStep]_vars

\* Every algorithm: the lines on a small half-pixel grid and on the default
\* end points, the circles, and the curves of the first control points.
InitTrace ==
  \/ \E alg \in LineAlgorithms,
        e \in ({Pos2(FHalf(i), FHalf(j)) : i, j \in -MaxTrace..MaxTrace}
                \X {Pos2(FHalf(i), FHalf(j)) : i, j \in -MaxTrace..MaxTrace})
               \cup {<<DefaultP1, DefaultP2>>} :
        InitApp(alg, Params(e[1], e[2], DefaultCenter, DefaultRadius, DefaultCastle))
  \/ InitCircle
  \/ \E n \in 0..MaxPoints :
        InitApp("CastlePitway",
                Params(DefaultP1, DefaultP2, DefaultCenter, DefaultRadius, Window(1, n)))

SpecTrace == InitTrace /\ [][Next]_vars

\* The circles of integer radius about the default centre.
InitOctant ==
  \E radius \in {FromInt(r) : r \in 1..MaxRadius} \cup {DefaultRadius} :
     InitApp("BresenhamCircle",
             Params(DefaultP1, DefaultP2, DefaultCenter, radius, DefaultCastle))

SpecOctant == InitOctant /\ [][NextCircle]_vars

\* GraphicsLabApp::default
InitDefault ==
  InitApp("BresenhamLine",
          Params(DefaultP1, DefaultP2, DefaultCenter, DefaultRadius, DefaultCastle))

\* The two loggers under any sequence of log calls.
SpecLogger == InitDefault /\ [][NextLogger]_vars

\* ------------------------------------------------------------------ claims

Done(alg) == pc = "done" /\ selected_algorithm = alg

PixelSet(seq) == {seq[i] : i \in 1..Len(seq)}

Max(a, b) == IF a >= b THEN a ELSE b

Min(a, b) == IF a <= b THEN a ELSE b

\* The rounded end points of the run, and the spans between them.
X1 == RoundI(params.p1.x)

Y1 == RoundI(params.p1.y)

X2 == RoundI(params.p2.x)

Y2 == RoundI(params.p2.y)

Major == Max(Abs(X2 - X1), Abs(Y2 - Y1))

Minor == Min(Abs(X2 - X1), Abs(Y2 - Y1))

\* The ideal line passes exactly halfway between two pixels at some step.
HasTie == Major > 0 /\ \E j \in 0..Major : (2 * Minor * j) % (2 * Major) = Major

\* The coordinate of pixel px along the dominant axis of step_by_step
\* (X when |dx| > |dy|, else Y), and the other one.
DomOf(px) == IF Abs(X2 - X1) > Abs(Y2 - Y1) THEN px[1] ELSE px[2]

DepOf(px) == IF Abs(X2 - X1) > Abs(Y2 - Y1) THEN px[2] ELSE px[1]

AAAlgorithms == {"WuLine", "StepByStepAA", "DdaAA", "BresenhamAA"}

\* The axes along which the end points are furthest apart (1 = X, 2 = Y), as
\* given or as rounded (bresenham_aa compares the rounded spans).
DominantAxes ==
  LET adx == FAbs(FSub(params.p2.x, params.p1.x))
      ady == FAbs(FSub(params.p2.y, params.p1.y))
      rdx == Abs(X2 - X1)
      rdy == Abs(Y2 - Y1)
  IN (IF FLt(adx, ady) /\ rdx < rdy THEN {} ELSE {1})
       \cup (IF FLt(ady, adx) /\ rdy < rdx THEN {} ELSE {2})

RoundedEnds(axis) == IF axis = 1 THEN {X1, X2} ELSE {Y1, Y2}

\* The entries of the first and of the last step of a result.
FirstStep(seq) ==
  IF selected_algorithm \in AAAlgorithms THEN {seq[1], seq[2]} ELSE {seq[1]}

LastStep(seq) ==
  IF selected_algorithm \in AAAlgorithms
  THEN {seq[Len(seq) - 1], seq[Len(seq)]} ELSE {seq[Len(seq)]}

\* C2: for each line algorithm the dominant-axis coordinates of the first and
\* of the last emitted pixel (or pixel pair) are the rounded dominant-axis
\* coordinates of the two end points.
C2_EndsOnDominantAxis ==
  (pc = "done" /\ selected_algorithm \in LineAlgorithms) =>
    /\ Len(render_result) > 0
    /\ \E axis \in DominantAxes :
         \E a, b \in RoundedEnds(axis) :
            /\ {a, b} = RoundedEnds(axis)
            /\ \A px \in FirstStep(render_result) : px[axis] = a
            /\ \A px \in LastStep(render_result) : px[axis] = b

\* 1e-4 as a binary32 value.
Tolerance == FDiv(FromInt(1), FromInt(10000))

SumsToOne(i1, i2) == FLt(FAbs(FSub(FAdd(i1, i2), FromInt(1))), Tolerance)

\* C3: the result of an antialiasing algorithm, as built so far and as
\* returned, consists of pairs of entries whose coverage values sum to 1.0
\* within 1e-4; at least one pair is returned.
C3_PairsSumToOne ==
  (pc \in {"exec", "done"} /\ selected_algorithm \in AAAlgorithms) =>
    /\ Len(frame.pixels) % 2 = 0
    /\ pc = "done" => Len(render_result) >= 2
    /\ \A n \in 1..(Len(frame.pixels) \div 2) :
         SumsToOne(frame.pixels[2 * n - 1][3], frame.pixels[2 * n][3])

Origin == Pos2(Zero, Zero)

\* C4: bresenham_line from (0,0) to (3,1) returns (0,0),(1,0),(2,1),(3,1).
C4_MidpointTrace ==
  (Done("BresenhamLine") /\ params.p1 = Origin
     /\ params.p2 = Pos2(FromInt(3), FromInt(1))) =>
    render_result = << <<0, 0>>, <<1, 0>>, <<2, 1>>, <<3, 1>> >>

\* The run of bresenham_line from (0,0) to (3,1) has returned.
C4_Witness ==
  /\ Done("BresenhamLine")
  /\ params.p1 = Origin
  /\ params.p2 = Pos2(FromInt(3), FromInt(1))
  /\ Len(render_result) = 4

\* C5, in every state of a run of bresenham_line: at most max(|dx|,|dy|)+1
\* pixels are emitted and the loop has ended once that many are; the first
\* pixel is the rounded p1; consecutive pixels differ by at most 1 in each
\* coordinate; the result returned has max(|dx|,|dy|)+1 pixels and ends with
\* the rounded p2.
C5_Inv ==
  (pc \in {"exec", "done"} /\ selected_algorithm = "BresenhamLine") =>
    LET px == frame.pixels IN
    /\ Len(px) <= Major + 1
    /\ Len(px) = Major + 1 => ~Running("BresenhamLine", frame)
    /\ Len(px) > 0 => px[1] = <<X1, Y1>>
    /\ \A n \in 1..(Len(px) - 1) :
         /\ Abs(px[n + 1][1] - px[n][1]) <= 1
         /\ Abs(px[n + 1][2] - px[n][2]) <= 1
    /\ pc = "done" =>
         /\ render_result = px
         /\ Len(px) = Major + 1
         /\ px[Len(px)] = <<X2, Y2>>

\* C5: the loop of bresenham_line emits exactly one pixel per iteration and
\* ends after max(|dx|,|dy|)+1 iterations with the rounded p2, having started
\* at the rounded p1 and moved by at most 1 in each coordinate per pixel.
C5_BresenhamLineTerminates ==
  /\ []C5_Inv
  /\ [][(pc = "exec" /\ selected_algorithm = "BresenhamLine" /\ pc' = "exec")
          => Len(frame'.pixels) = Len(frame.pixels) + 1]_vars

\* bresenham_line has returned a slanted line of at least four pixels.
C5_Witness ==
  /\ Done("BresenhamLine")
  /\ Minor > 0
  /\ Len(render_result) = Major + 1
  /\ Len(render_result) >= 4

\* C6: for p1 = p2 each of step_by_step, dda and bresenham_line returns
\* exactly one pixel, the rounded common end point.
C6_ZeroLength ==
  (pc = "done" /\ selected_algorithm \in {"StepByStep", "DDA", "BresenhamLine"}
     /\ params.p1 = params.p2) =>
    render_result = << <<X1, Y1>> >>

\* The eight reflections of pixel px about the centre (cx, cy).
Reflections(cx, cy, px) ==
  LET x == px[1] - cx
      y == px[2] - cy
  IN {<<cx + a, cy + b>> : a \in {x, -x}, b \in {y, -y}}
       \cup {<<cx + b, cy + a>> : a \in {x, -x}, b \in {y, -y}}

\* C7: the pixel set returned by bresenham_circle is closed under the eight
\* reflections about the rounded centre.
C7_EightfoldSymmetry ==
  Done("BresenhamCircle") =>
    \A px \in PixelSet(render_result) :
       Reflections(RoundI(params.circle_center.x), RoundI(params.circle_center.y), px)
         \subseteq PixelSet(render_result)

\* The circle of centre (0,0) and radius 5 has been rasterized.
C7_Witness ==
  /\ Done("BresenhamCircle")
  /\ params.circle_center = Origin
  /\ params.circle_radius = FromInt(5)
  /\ <<2, 4>> \in PixelSet(render_result)
  /\ <<-4, -2>> \in PixelSet(render_result)

\* C8: bresenham_circle has pushed 8 pixels per iteration of its loop (x counts
\* the iterations); with a radius that rounds to 0 it returns 8 pixels after
\* one iteration, all equal to the rounded centre.
C8_EightPerIteration ==
  (pc \in {"exec", "done"} /\ selected_algorithm = "BresenhamCircle") =>
    /\ Len(frame.pixels) = 8 * frame.x
    /\ (pc = "done" /\ RoundI(params.circle_radius) = 0) =>
         /\ frame.x = 1
         /\ Len(render_result) = 8
         /\ PixelSet(render_result) =
              {<<RoundI(params.circle_center.x), RoundI(params.circle_center.y)>>}

\* A circle whose radius rounds to 0 has been rasterized.
C8_Witness ==
  /\ Done("BresenhamCircle")
  /\ RoundI(params.circle_radius) = 0
  /\ params.circle_radius # Zero
  /\ Len(render_result) = 8

\* C9: castle_pitway with fewer than 2 control points returns an empty
\* sequence and logs nothing; the StringLogger drained afterwards gives the
\* fixed text of an empty buffer.
C9_TooFewPoints ==
  (Done("CastlePitway") /\ Len(params.castle_points) < 2) =>
    /\ render_result = <<>>
    /\ frame.logger.buffer = <<>>
    /\ log_enabled =>
         /\ Len(text_windows) = 1
         /\ text_windows[1].content = [text |-> NoLogsProduced, lines |-> <<>>]

\* castle_pitway has returned for a single control point, logging enabled.
C9_Witness ==
  /\ Done("CastlePitway")
  /\ Len(params.castle_points) = 1
  /\ log_enabled
  /\ Len(text_windows) = 1

\* The rounded sample points of the curve, each with its parameter step.
Samples == {<<i, SamplePixel(params.castle_points, i)>> : i \in 0..steps}

\* The first step at which pixel px is sampled, among the pairs of smp.
FirstAt(smp, px) ==
  LET at == {a[1] : a \in {b \in smp : b[2] = px}}
  IN CHOOSE i \in at : \A j \in at : i <= j

\* C10: for 2 or more control points castle_pitway returns the distinct rounded
\* sample points, each once, in the order of their first occurrence; at most
\* steps + 1 = 1001 pixels, and fewer when two samples round to the same pixel.
C10_Deduplicated ==
  (Done("CastlePitway") /\ Len(params.castle_points) >= 2) =>
    LET smp == Samples
        r == render_result
    IN /\ Len(r) <= steps + 1
       /\ \A n, m \in 1..Len(r) : n # m => r[n] # r[m]
       /\ PixelSet(r) = {a[2] : a \in smp}
       /\ \A n \in 1..(Len(r) - 1) : FirstAt(smp, r[n]) < FirstAt(smp, r[n + 1])
       /\ (\E a, b \in smp : a[1] # b[1] /\ a[2] = b[2]) => Len(r) < steps + 1

\* castle_pitway has returned for the four default control points, with fewer
\* pixels than samples.
C10_Witness ==
  /\ Done("CastlePitway")
  /\ params.castle_points = DefaultCastle
  /\ Len(render_result) > 100
  /\ Len(render_result) < steps + 1

\* num / den (den > 0) rounded to the nearest integer, halves away from zero.
RoundRatio(num, den) == Sgn(num) * ((2 * Abs(num) + den) \div (2 * den))

\* The pixel of the point A + (i / steps) * (B - A) of the segment AB, computed
\* exactly, for integer-aligned A and B.
SegmentPixel(A, B, i) ==
  LET ax == RoundI(A.x)
      ay == RoundI(A.y)
      bx == RoundI(B.x)
      by == RoundI(B.y)
  IN <<RoundRatio(ax * steps + i * (bx - ax), steps),
       RoundRatio(ay * steps + i * (by - ay), steps)>>

\* C11 as stated: castle_pitway with exactly two control points A, B returns only
\* roundings of points A + t(B - A), t = i/1000, of the segment AB; its first
\* pixel is round(A) and its last pixel round(B), the end pixels that the line
\* rasterizer bresenham_line returns for A, B.
C11_TwoPointsSegment ==
  (Done("CastlePitway") /\ Len(params.castle_points) = 2) =>
    LET A == params.castle_points[1]
        B == params.castle_points[2]
        r == render_result
        line == bresenham_line(A, B, NoOpLogger)
    IN /\ Len(r) >= 1
       /\ PixelSet(r) \subseteq {SegmentPixel(A, B, i) : i \in 0..steps}
       /\ r[1] = <<RoundI(A.x), RoundI(A.y)>>
       /\ r[Len(r)] = <<RoundI(B.x), RoundI(B.y)>>
       /\ r[1] = line[1]
       /\ r[Len(r)] = line[Len(line)]

\* castle_pitway has returned for two distinct control points.
C11_Witness ==
  /\ Done("CastlePitway")
  /\ Len(params.castle_points) = 2
  /\ params.castle_points[1] # params.castle_points[2]
  /\ Len(render_result) > 100

\* num / den (den > 0) lies exactly halfway between two integers.
IsHalfway(num, den) == (2 * Abs(num)) % (2 * den) = den

\* The rounded binary32 point (1 - t) * A + t * B of sample i, t = i / steps.
LerpPixel(A, B, i) ==
  LET p == Pos2_lerp(A, B, FDiv(FromInt(i), FromInt(steps)))
  IN <<RoundI(p.x), RoundI(p.y)>>

\* Coordinate v of sample i agrees with the exact rounding of
\* a + (i / steps) * (b - a), or is its neighbour where that point is halfway.
NearExact(v, a, b, i) ==
  LET num == a * steps + i * (b - a)
  IN \/ v = RoundRatio(num, steps)
     \/ IsHalfway(num, steps) /\ Abs(v - RoundRatio(num, steps)) = 1

\* C11, amended: castle_pitway with exactly two control points A, B returns
\* the roundings of the binary32 points (1 - t) * A + t * B, t = i/1000; each
\* coordinate of such a pixel is the exact rounding of A + t(B - A) except
\* where the exact point lies halfway between two pixels, where it may be the
\* other neighbour; the first pixel is round(A) and the last round(B), the end
\* pixels that bresenham_line returns for A, B.
C11_SegmentUpToHalves ==
  (Done("CastlePitway") /\ Len(params.castle_points) = 2) =>
    LET A == params.castle_points[1]
        B == params.castle_points[2]
        r == render_result
        line == bresenham_line(A, B, NoOpLogger)
    IN /\ Len(r) >= 1
       /\ PixelSet(r) = {LerpPixel(A, B, i) : i \in 0..steps}
       /\ \A i \in 0..steps :
            /\ NearExact(LerpPixel(A, B, i)[1], RoundI(A.x), RoundI(B.x), i)
            /\ NearExact(LerpPixel(A, B, i)[2], RoundI(A.y), RoundI(B.y), i)
       /\ r[1] = <<RoundI(A.x), RoundI(A.y)>>
       /\ r[Len(r)] = <<RoundI(B.x), RoundI(B.y)>>
       /\ r[1] = line[1]
       /\ r[Len(r)] = line[Len(line)]

\* m1 '\n' m2 '\n' ... mn '\n', for the messages m1, ..., mn of msgs.
RECURSIVE Lines(_)
Lines(msgs) ==
  IF msgs = <<>> THEN <<>> ELSE Head(msgs) \o <<"\n">> \o Lines(Tail(msgs))

\* C12: after any sequence of log calls, a NoOpLogger reports can_write() =
\* false, has kept nothing and results() is the fixed 'logging disabled' text;
\* a StringLogger reports can_write() = true and results() is the messages in
\* call order, each followed by a newline, or the fixed 'no logs' text when
\* log was never called.
C12_SinkContract ==
  (pc \in {"sink", "drained"}) =>
    LET l == frame.logger
        n == Len(l.received)
    IN /\ l.kind = "NoOp" =>
            /\ ~can_write(l)
            /\ l.buffer = <<>>
            /\ results(l) = [text |-> LoggingDisabled, lines |-> <<>>]
       /\ l.kind = "String" =>
            /\ can_write(l)
            /\ n >= 1 => results(l) = [text |-> "", lines |-> Lines(l.received)]
            /\ n = 0 => results(l) = [text |-> NoLogsProduced, lines |-> <<>>]
       /\ pc = "drained" =>
            /\ Len(text_windows) = 1
            /\ text_windows[1].content = results(l)

\* Both loggers have been consumed after the most log calls, the StringLogger
\* after an empty message and a message holding a newline.
C12_Witness ==
  /\ pc = "drained"
  /\ Len(frame.logger.received) = MaxCalls
  /\ frame.logger.received[1] = <<>>
  /\ frame.logger.received[2] = <<"\n", "a">>
  /\ frame.logger.kind = "String"

\* `steps` of dda: the larger of |dx|, |dy|, rounded to an integer.
DdaSteps ==
  LET dx == FSub(params.p2.x, params.p1.x)
      dy == FSub(params.p2.y, params.p1.y)
  IN RoundI(IF FGt(FAbs(dx), FAbs(dy)) THEN FAbs(dx) ELSE FAbs(dy))

\* C13: for every pair of end points dda returns exactly steps + 1 pixels, the
\* first the rounded p1 and the last the rounded p2.
C13_DdaBothEnds ==
  Done("DDA") =>
    /\ Len(render_result) = DdaSteps + 1
    /\ render_result[1] = <<X1, Y1>>
    /\ render_result[Len(render_result)] = <<X2, Y2>>

\* Twice a coordinate of the half-pixel grid, as an integer.
Twice(v) == RoundI(FAdd(v, v))

\* The dominant axis of step_by_step is X.
XDominant ==
  Abs(Twice(params.p2.x) - Twice(params.p1.x)) > Abs(Twice(params.p2.y) - Twice(params.p1.y))

\* Twice the end points in the dominant frame of step_by_step: dominant
\* coordinates d1, d2 and dependent coordinates v1, v2.
DominantFrame ==
  IF XDominant
  THEN [xdom |-> TRUE, d1 |-> Twice(params.p1.x), d2 |-> Twice(params.p2.x),
        v1 |-> Twice(params.p1.y), v2 |-> Twice(params.p2.y)]
  ELSE [xdom |-> FALSE, d1 |-> Twice(params.p1.y), d2 |-> Twice(params.p2.y),
        v1 |-> Twice(params.p1.x), v2 |-> Twice(params.p2.x)]

\* The dependent coordinate of the line through p1 and p2 at dominant
\* coordinate c, k * c + b computed exactly and then rounded.
ExactDependent(fr, c) ==
  LET num == fr.v1 * (fr.d2 - fr.d1) + (2 * c - fr.d1) * (fr.v2 - fr.v1)
      den == 2 * (fr.d2 - fr.d1)
  IN RoundRatio(Sgn(den) * num, Abs(den))

\* The exact k * c + b lies halfway between two integers.
DependentHalfway(fr, c) ==
  IsHalfway(fr.v1 * (fr.d2 - fr.d1) + (2 * c - fr.d1) * (fr.v2 - fr.v1),
            Abs(2 * (fr.d2 - fr.d1)))

\* The dominant coordinates step_by_step is to cover, the rounded ends inclusive.
DominantFrom == IF XDominant THEN Min(X1, X2) ELSE Min(Y1, Y2)

DominantTo == IF XDominant THEN Max(X1, X2) ELSE Max(Y1, Y2)

\* C14 as stated: step_by_step returns one pixel for each integer dominant
\* coordinate c between the rounded end points, in ascending order, with the
\* dependent coordinate round(k * c + b) of the line through the end points
\* (where they differ, so that the line has a slope); from (-50,-10) to
\* (50,20) the dominant axis is X, 101 pixels are returned and the first is
\* (-50,-10).
C14_OnePixelPerStep ==
  Done("StepByStep") =>
    LET r == render_result
        fr == DominantFrame
        from == DominantFrom
        dom(px) == IF fr.xdom THEN px[1] ELSE px[2]
        dep(px) == IF fr.xdom THEN px[2] ELSE px[1]
    IN /\ Len(r) = DominantTo - from + 1
       /\ \A n \in 1..Len(r) : dom(r[n]) = from + n - 1
       /\ params.p1 # params.p2 =>
            \A n \in 1..Len(r) : dep(r[n]) = ExactDependent(fr, dom(r[n]))
       /\ (params.p1 = DefaultP1 /\ params.p2 = DefaultP2) =>
            /\ fr.xdom
            /\ Len(r) = 101
            /\ r[1] = <<-50, -10>>

\* step_by_step has returned for the default end points.
C14_Witness ==
  /\ Done("StepByStep")
  /\ params.p1 = DefaultP1
  /\ params.p2 = DefaultP2
  /\ Len(render_result) = 101

\* C14, amended: step_by_step returns one pixel for each integer dominant
\* coordinate c between the rounded end points, in ascending order; where the
\* end points differ its dependent coordinate is the rounding of the exact
\* k * c + b, or the other neighbour where that value lies halfway between two
\* integers (k, b and the sum are binary32); from (-50,-10) to (50,20) the
\* dominant axis is X, 101 pixels are returned and the first is (-50,-10).
C14_OnePixelPerStepUpToHalves ==
  Done("StepByStep") =>
    LET r == render_result
        fr == DominantFrame
        from == DominantFrom
        dom(px) == IF fr.xdom THEN px[1] ELSE px[2]
        dep(px) == IF fr.xdom THEN px[2] ELSE px[1]
    IN /\ Len(r) = DominantTo - from + 1
       /\ \A n \in 1..Len(r) : dom(r[n]) = from + n - 1
       /\ params.p1 # params.p2 =>
            \A n \in 1..Len(r) :
               \/ dep(r[n]) = ExactDependent(fr, dom(r[n]))
               \/ /\ DependentHalfway(fr, dom(r[n]))
                  /\ Abs(dep(r[n]) - ExactDependent(fr, dom(r[n]))) = 1
       /\ (params.p1 = DefaultP1 /\ params.p2 = DefaultP2) =>
            /\ fr.xdom
            /\ Len(r) = 101
            /\ r[1] = <<-50, -10>>

\* v is a coverage: a number of [0, 1].
IsCoverage(v) == ~v.nan /\ ~FLt(v, Zero) /\ ~FGt(v, FromInt(1))

\* C15, in every state of a run of bresenham_aa on integer-aligned end points
\* with span = max(|dx|,|dy|) > 0: the loop takes span + 1 steps; the
\* accumulator d is 0 at the first step and 0 <= d < span at every step; two
\* entries are pushed per step, each with a coverage in [0,1]; the primary
\* pixel of the first step is the rounded p1 and that of the last step the
\* rounded p2.
C15_Inv ==
  (pc \in {"exec", "done"} /\ selected_algorithm = "BresenhamAA" /\ Major > 0) =>
    LET px == frame.pixels IN
    /\ frame.end = Major
    /\ frame.c <= Major + 1
    /\ frame.c = 0 => frame.d = 0
    /\ 0 <= frame.d /\ frame.d < Major
    /\ Len(px) = 2 * frame.c
    /\ \A n \in 1..Len(px) : IsCoverage(px[n][3])
    /\ frame.c >= 1 => (px[1][1] = X1 /\ px[1][2] = Y1)
    /\ pc = "done" =>
         /\ frame.c = Major + 1
         /\ render_result = px
         /\ px[2 * Major + 1][1] = X2
         /\ px[2 * Major + 1][2] = Y2

OtherLogger == IF log_enabled THEN NoOpLogger ELSE StringLogger_new

\* The frame of a call without its logger.
Strip(f) == [field \in (DOMAIN f) \ {"logger"} |-> f[field]]

\* C16: every algorithm returns the same sequence with a NoOpLogger as with a
\* StringLogger: the two calls enter their loop with the same locals and, from
\* the same locals, take the same loop decision and the same step whatever the
\* logger (so they run in lock step to the same result; for the algorithms
\* other than the 1001-step curve the result of the other call is also
\* computed whole and compared); log is never called on a NoOpLogger (the
\* calls are under can_write()), and without logging no text window is made.
C16_TraceNonInterference ==
  /\ pc = "idle" =>
       Strip(Enter(selected_algorithm, params, NoOpLogger))
         = Strip(Enter(selected_algorithm, params, StringLogger_new))
  /\ pc = "exec" =>
       LET twin == [frame EXCEPT !.logger = OtherLogger] IN
       /\ Running(selected_algorithm, twin) = Running(selected_algorithm, frame)
       /\ Running(selected_algorithm, frame) =>
            Strip(Iter(selected_algorithm, twin)) = Strip(Iter(selected_algorithm, frame))
  /\ (pc \in {"exec", "done"}) =>
       /\ frame.logger.kind = (IF log_enabled THEN "String" ELSE "NoOp")
       /\ frame.logger.kind = "NoOp" => frame.logger.received = <<>>
  /\ pc = "done" =>
       /\ render_result = frame.pixels
       /\ selected_algorithm # "CastlePitway" =>
            render_result =
              RunLoop(selected_algorithm,
                      Enter(selected_algorithm, params, OtherLogger)).pixels
       /\ Len(text_windows) = (IF log_enabled THEN 1 ELSE 0)

\* The curve has been returned with tracing, the trace holding its 11 lines.
C16_Witness ==
  /\ Done("CastlePitway")
  /\ log_enabled
  /\ Len(params.castle_points) = 4
  /\ Len(frame.logger.received) = 11
  /\ Len(render_result) > 100

\* C17: for an integer radius r >= 1 the loop of bresenham_circle runs at most
\* r + 1 times, and every offset (x, y) it has emitted satisfies
\* 0 <= x <= y <= r and (r-1)^2 < x^2 + y^2 < (r+1)^2.
C17_OctantNearCircle ==
  (pc \in {"exec", "done"} /\ selected_algorithm = "BresenhamCircle"
     /\ RoundI(params.circle_radius) >= 1) =>
    LET r == RoundI(params.circle_radius)
        px == frame.pixels
    IN /\ frame.x <= r + 1
       /\ pc = "done" => ~Running("BresenhamCircle", frame)
       /\ \A n \in 0..(frame.x - 1) :
            LET x == px[8 * n + 1][1] - frame.cx
                y == px[8 * n + 1][2] - frame.cy
            IN /\ 0 <= x /\ x <= y /\ y <= r
               /\ (r - 1) * (r - 1) < x * x + y * y
               /\ x * x + y * y < (r + 1) * (r + 1)

\* The pixels the selected algorithm returns for the end points exchanged.
Reversed ==
  RunLoop(selected_algorithm,
          Enter(selected_algorithm,
                [params EXCEPT !.p1 = params.p2, !.p2 = params.p1],
                NoOpLogger)).pixels

\* C18 as stated: on integer-aligned end points each of step_by_step, dda and
\* bresenham_line returns the same set of pixels for (p1, p2) as for (p2, p1).
C18_OrderIndependent ==
  (pc = "done" /\ selected_algorithm \in {"StepByStep", "DDA", "BresenhamLine"}) =>
    PixelSet(render_result) = PixelSet(Reversed)

\* C18, amended: on integer-aligned end points each of step_by_step, dda and
\* bresenham_line returns for (p2, p1) as many pixels as for (p1, p2), at the
\* same dominant-axis coordinates and with dependent coordinates at most 1
\* apart; the two pixel sets are equal unless the line passes exactly halfway
\* between two pixels at some step.
C18_OrderIndependentUpToTies ==
  (pc = "done" /\ selected_algorithm \in {"StepByStep", "DDA", "BresenhamLine"}) =>
    LET a == render_result
        b == Reversed
    IN /\ Len(a) = Len(b)
       /\ {DomOf(a[i]) : i \in 1..Len(a)} = {DomOf(b[i]) : i \in 1..Len(b)}
       /\ \A i \in 1..Len(a), j \in 1..Len(b) :
            DomOf(a[i]) = DomOf(b[j]) => Abs(DepOf(a[i]) - DepOf(b[j])) <= 1
       /\ ~HasTie => PixelSet(a) = PixelSet(b)

\* dda has returned the line from (-3,0) to (3,1), which passes halfway
\* between two pixels at x = 0.
C18_Witness ==
  /\ Done("DDA")
  /\ params.p1 = Pos2(FromInt(-3), Zero)
  /\ params.p2 = Pos2(FromInt(3), FromInt(1))
  /\ HasTie
  /\ render_result[4] = <<0, 1>>
  /\ Reversed[4] = <<0, 0>>

====
